---- MODULE Spec2Model ----
\* Model of the ai-dlc command line tool (crates/ai-dlc-cli/src/main.rs):
\* `scaffold` resolves a list of provider names, looks each one up in the
\* embedded template catalog and extracts the provider's hidden directory
\* under the current working directory.
\*
\* Strings are sequences of one-character strings, so that format!(".{}"),
\* Path::new, Path::to_str and Path::file_name are modelled by what they do.
\* A Path is the sequence of its components.
EXTENDS Naturals, Integers, Sequences, FiniteSets, TLC

VARIABLES
    TEMPLATES_DIR,          \* the embedded catalog (static, never mutated)
    args,                   \* ScaffoldArgs: [provider, all]
    fs,                     \* the disk below the working directory: [dirs, files]
    pc,                     \* position in main/handle_scaffold
    providers_to_scaffold,  \* the resolved provider list
    next_provider,          \* index of the provider the for loop is at
    pending,                \* filesystem calls left in the running extract_dir
    result,                 \* "None" while running, then "Ok" or "Err"
    error,                  \* the anyhow context of the error returned
    warnings,               \* tracing::warn! events of the current run
    ops,                    \* filesystem calls made in the current run
    lookups,                \* catalog accesses made in the current run
    run,                    \* "first" or "second" invocation on this disk
    fs_start,               \* the disk when the current run started
    fs_prev,                \* the disk when the previous run returned
    prev_result             \* what the previous run returned ("None": no such run)

vars == <<TEMPLATES_DIR, args, fs, pc, providers_to_scaffold, next_provider,
          pending, result, error, warnings, ops, lookups, run, fs_start,
          fs_prev, prev_result>>

\* ---------------------------------------------------------------- bounds

\* Longest explicit --provider list drawn.
MaxProviders == 2

\* --------------------------------------------------------------- strings

Slash == "/"
Dot == "."

None == [some |-> FALSE]
Some(v) == [some |-> TRUE, value |-> v]

Last(s) == s[Len(s)]
Front(s) == SubSeq(s, 1, Len(s) - 1)

IsPrefix(base, p) ==
    /\ Len(base) <= Len(p)
    /\ SubSeq(p, 1, Len(base)) = base

Prefixes(p) == { SubSeq(p, 1, k) : k \in 1..Len(p) }

\* The pieces of a string between its separators, empty pieces included.
RECURSIVE Split(_, _)
Split(s, cur) ==
    IF s = <<>> THEN <<cur>>
    ELSE IF Head(s) = Slash THEN <<cur>> \o Split(Tail(s), <<>>)
    ELSE Split(Tail(s), Append(cur, Head(s)))

\* Path::components: empty pieces vanish, and so does every "." that is
\* not the first component ("a//b", "a/./b" and "a/b/" are the path a/b).
RECURSIVE Normalize(_, _)
Normalize(pieces, first) ==
    IF pieces = <<>> THEN <<>>
    ELSE IF Head(pieces) = <<>> THEN Normalize(Tail(pieces), first)
    ELSE IF Head(pieces) = <<Dot>> /\ ~first THEN Normalize(Tail(pieces), FALSE)
    ELSE <<Head(pieces)>> \o Normalize(Tail(pieces), FALSE)

\* Path::new(s), as the sequence of components that Path's == compares.
PathNew(s) == Normalize(Split(s, <<>>), TRUE)

\* Path::to_str of a relative path: the components joined by the separator.
RECURSIVE to_str(_)
to_str(p) ==
    IF p = <<>> THEN <<>>
    ELSE IF Len(p) = 1 THEN p[1]
    ELSE p[1] \o <<Slash>> \o to_str(Tail(p))

\* Path::file_name: the last component, when it is a normal one.
file_name(p) ==
    IF p = <<>> \/ Last(p) = <<Dot>> \/ Last(p) = <<Dot, Dot>> THEN None
    ELSE Some(Last(p))

\* Path::parent: the path without its last component.
parent(p) == IF p = <<>> THEN None ELSE Some(Front(p))

\* Path::join with a relative path.
join(root, rel) == root \o rel

\* Path::strip_prefix: component-wise, an error when base is no prefix.
strip_prefix_of(p, base) ==
    IF IsPrefix(base, p) THEN Some(SubSeq(p, Len(base) + 1, Len(p))) ELSE None

\* .strip_prefix(strip_prefix).unwrap_or_else(|_| path)
strip_or_self(p, base) ==
    IF strip_prefix_of(p, base).some THEN strip_prefix_of(p, base).value ELSE p

\* format!(".{}", provider_name)
hidden_dir_name_of(provider_name) == <<Dot>> \o provider_name

\* ------------------------------------------------- the embedded catalog

\* include_dir::DirEntry: a directory knows its path from the catalog root
\* and its entries in embedding order, a file its path and its contents.
Dir(path, entries) == [kind |-> "Dir", path |-> path, entries |-> entries]
File(path, contents) == [kind |-> "File", path |-> path, contents |-> contents]

\* Dir::dirs(): the entries that are directories, in order.
dirs(d) == SelectSeq(d.entries, LAMBDA e : e.kind = "Dir")

\* Dir::get_entry: depth-first search for the entry whose path equals path.
RECURSIVE get_entry(_, _)
RECURSIVE get_entry_from(_, _, _)
get_entry_from(d, path, i) ==
    IF i > Len(d.entries) THEN None
    ELSE IF d.entries[i].path = path THEN Some(d.entries[i])
    ELSE IF d.entries[i].kind = "Dir" /\ get_entry(d.entries[i], path).some
         THEN get_entry(d.entries[i], path)
    ELSE get_entry_from(d, path, i + 1)
get_entry(d, path) == get_entry_from(d, path, 1)

\* Dir::get_dir: get_entry(path).and_then(DirEntry::as_dir)
get_dir(d, path) ==
    IF get_entry(d, path).some /\ get_entry(d, path).value.kind = "Dir"
    THEN get_entry(d, path)
    ELSE None

\* Names used by the catalogs and the command lines below.
s_a == <<"a">>
s_b == <<"b">>
s_n == <<"n">>
s_f == <<"f">>
s_A == <<"A">>
s_z == <<"z">>
s_r == <<"r">>
s_c == <<"c">>
s_x == <<"x">>
s_y == <<"y">>
s_s == <<"s">>
s_e == <<"e">>
s_t == <<"t">>
h_a == <<".", "a">>
h_b == <<".", "b">>
h_n == <<".", "n">>
h_f == <<".", "f">>

\* A catalog with: a top-level file; provider b (hidden directory with a
\* file, a nested directory and an empty directory); provider a (a sibling
\* file, then the hidden directory); provider n (a directory named .n only
\* deeper in its subtree); provider f (.f is a file); provider A (its only
\* hidden directory is named .a).
CatalogMain ==
    Dir(<<>>, <<
        File(<<s_r>>, "readme"),
        Dir(<<s_b>>, <<
            Dir(<<s_b, h_b>>, <<
                File(<<s_b, h_b, s_x>>, "bx"),
                Dir(<<s_b, h_b, s_s>>, <<
                    File(<<s_b, h_b, s_s, s_y>>, "by") >>),
                Dir(<<s_b, h_b, s_e>>, <<>>) >>) >>),
        Dir(<<s_a>>, <<
            File(<<s_a, s_t>>, "at"),
            Dir(<<s_a, h_a>>, <<
                File(<<s_a, h_a, s_c>>, "x: 1"),
                File(<<s_a, h_a, s_x>>, "ax") >>) >>),
        Dir(<<s_n>>, <<
            Dir(<<s_n, s_s>>, <<
                Dir(<<s_n, s_s, h_n>>, <<
                    File(<<s_n, s_s, h_n, s_x>>, "nx") >>) >>) >>),
        Dir(<<s_f>>, <<
            File(<<s_f, h_f>>, "ff") >>),
        Dir(<<s_A>>, <<
            Dir(<<s_A, h_a>>, <<
                File(<<s_A, h_a, s_c>>, "Ac") >>) >>) >>)

\* A catalog where b is a top-level file and a's hidden directory is empty.
CatalogAlt ==
    Dir(<<>>, <<
        Dir(<<s_a>>, <<
            Dir(<<s_a, h_a>>, <<>>) >>),
        File(<<s_b>>, "b is a file") >>)

Catalogs == {CatalogMain, CatalogAlt}

\* The --provider values drawn: a, b, z (in no catalog), "a/.a" (the path
\* of a nested directory) and "a/" (the path a, written differently).
ProviderNames ==
    { s_a, s_b, s_z, <<"a", "/", ".", "a">>, <<"a", "/">> }

RECURSIVE SeqsUpTo(_, _)
SeqsUpTo(S, n) ==
    IF n = 0 THEN {<<>>}
    ELSE SeqsUpTo(S, n - 1) \cup
         { Append(q, v) : q \in { r \in SeqsUpTo(S, n - 1) : Len(r) = n - 1 }, v \in S }

\* The command lines drawn: --all alone or with one --provider, or up to
\* MaxProviders --provider values without --all.
ArgsDrawn ==
    { [provider |-> p, all |-> FALSE] : p \in SeqsUpTo(ProviderNames, MaxProviders) }
    \cup { [provider |-> p, all |-> TRUE] : p \in {<<>>, <<s_z>>, <<s_a>>} }

\* ------------------------------------------------------------- the disk

\* The disk below the working directory: the set of directories and the
\* contents of the files, by path from the working directory (which exists
\* and is the empty path).
EmptyFs == [dirs |-> {}, files |-> <<>>]

\* Disks the program may be started on: an empty directory; one holding an
\* older .a (a stale c and an unrelated k); one where .a is a file; one
\* where .b/x is a directory.
InitialDisks ==
    { EmptyFs,
      [dirs |-> {<<h_a>>},
       files |-> (<<h_a, s_c>> :> "old") @@ (<<h_a, <<"k">>>> :> "keep")],
      [dirs |-> {}, files |-> (<<h_a>> :> "blocker")],
      [dirs |-> {<<h_b>>, <<h_b, s_x>>}, files |-> <<>>] }

\* What the operating system makes of a path: "." components name the
\* directory they are in.
Resolve(path) == SelectSeq(path, LAMBDA c : c # <<Dot>>)

IsDir(f, p) == p = <<>> \/ p \in f.dirs
IsFile(f, p) == p \in DOMAIN f.files

\* std::fs::create_dir_all: creates the directory and its missing
\* ancestors; an existing directory is not an error, a file in the way is.
create_dir_all_strict(f, path) ==
    IF \E q \in Prefixes(Resolve(path)) : IsFile(f, q) \/ IsDir(f, q)
    THEN [ok |-> FALSE, fs |-> f]
    ELSE [ok |-> TRUE,
          fs |-> [f EXCEPT !.dirs = @ \cup Prefixes(Resolve(path))]]

create_dir_all(f, path) ==
    IF \E q \in Prefixes(Resolve(path)) : IsFile(f, q)
    THEN [ok |-> FALSE, fs |-> f]
    ELSE [ok |-> TRUE,
          fs |-> [f EXCEPT !.dirs = @ \cup Prefixes(Resolve(path))]]

WithFile(f, p, contents) ==
    [f EXCEPT !.files =
        [q \in DOMAIN f.files \cup {p} |-> IF q = p THEN contents ELSE f.files[q]]]

\* std::fs::write: creates or truncates the file and writes the contents;
\* fails on a directory and when the parent is not a directory.
fs_write(f, path, contents) ==
    IF \/ Resolve(path) = <<>>
       \/ IsDir(f, Resolve(path))
       \/ ~IsDir(f, Front(Resolve(path)))
    THEN [ok |-> FALSE, fs |-> f]
    ELSE [ok |-> TRUE, fs |-> WithFile(f, Resolve(path), contents)]

\* What a call that the system fails (permissions, disk full) may leave:
\* nothing, some of the missing ancestors, or the file truncated.
FailedOutcomes(f, c) ==
    IF c.call = "create_dir_all"
    THEN {f} \cup
         IF create_dir_all(f, c.path).ok
         THEN { create_dir_all(f, SubSeq(Resolve(c.path), 1, k)).fs :
                    k \in 1..(Len(Resolve(c.path)) - 1) }
         ELSE {}
    ELSE {f} \cup
         IF fs_write(f, c.path, c.contents).ok
         THEN { fs_write(f, c.path, "").fs }
         ELSE {}

\* The outcome of a call the system does not fail.
Perform(f, c) ==
    IF c.call = "create_dir_all" THEN create_dir_all(f, c.path)
    ELSE fs_write(f, c.path, c.contents)

\* ---------------------------------------------------------- extract_dir

CreateDirAll(path, context) ==
    [call |-> "create_dir_all", path |-> path, contents |-> "", context |-> context]
Write(path, contents, context) ==
    [call |-> "write", path |-> path, contents |-> contents, context |-> context]

\* The destination of a catalog path: strip the prefix, or keep the path
\* when it does not start with it, then join onto dest_root.
dest_path(path, dest_root, strip_prefix) ==
    join(dest_root, strip_or_self(path, strip_prefix))

\* The DirEntry::File arm: create the parent, then write the contents.
file_calls(f, dest_root, strip_prefix) ==
    (IF parent(dest_path(f.path, dest_root, strip_prefix)).some
     THEN <<CreateDirAll(parent(dest_path(f.path, dest_root, strip_prefix)).value,
                         "Failed to create parent directory")>>
     ELSE <<>>)
    \o <<Write(dest_path(f.path, dest_root, strip_prefix), f.contents,
               "Failed to write file")>>

\* extract_dir, as the sequence of filesystem calls it makes when none
\* fails: the directory itself, then its entries in order, directories by
\* recursion with the same dest_root and strip_prefix.
RECURSIVE extract_dir(_, _, _)
RECURSIVE extract_entries(_, _, _, _)
extract_entries(entries, i, dest_root, strip_prefix) ==
    IF i > Len(entries) THEN <<>>
    ELSE (IF entries[i].kind = "Dir"
          THEN extract_dir(entries[i], dest_root, strip_prefix)
          ELSE file_calls(entries[i], dest_root, strip_prefix))
         \o extract_entries(entries, i + 1, dest_root, strip_prefix)

extract_dir_flat(embedded_dir, dest_root, strip_prefix) ==
    <<CreateDirAll(dest_path(embedded_dir.path, dest_root, strip_prefix),
                   "Failed to create directory")>>
    \o extract_entries(SelectSeq(embedded_dir.entries, LAMBDA e : e.kind = "File"),
                       1, dest_root, strip_prefix)

extract_dir(embedded_dir, dest_root, strip_prefix) ==
    <<CreateDirAll(dest_path(embedded_dir.path, dest_root, strip_prefix),
                   "Failed to create directory")>>
    \o extract_entries(embedded_dir.entries, 1, dest_root, strip_prefix)

\* ------------------------------------------------------ handle_scaffold

\* Which branch of the provider selection a command line takes.
selection_explicit_first(a) ==
    IF a.provider # <<>> THEN "explicit" ELSE IF a.all THEN "all" ELSE "none"

selection_default_all(a) ==
    IF a.all \/ a.provider = <<>> THEN "all" ELSE "explicit"

selection(a) ==
    IF a.all THEN "all" ELSE IF a.provider = <<>> THEN "none" ELSE "explicit"

\* TEMPLATES_DIR.dirs().map(|d| d.path().to_str().unwrap().to_string())
top_level_names(catalog) ==
    [i \in 1..Len(dirs(catalog)) |-> to_str(dirs(catalog)[i].path)]

\* provider_dir.dirs().find(|dir| dir.path().file_name() == Some(target_name))
RECURSIVE all_dirs(_)
RECURSIVE all_dirs_from(_, _)
all_dirs_from(ds, i) ==
    IF i > Len(ds) THEN <<>>
    ELSE <<ds[i]>> \o all_dirs(ds[i]) \o all_dirs_from(ds, i + 1)
all_dirs(d) == all_dirs_from(dirs(d), 1)

First(ds) == IF ds = <<>> THEN None ELSE Some(ds[1])

find_hidden_dir_deep(provider_dir, hidden_dir_name) ==
    First(SelectSeq(all_dirs(provider_dir),
                    LAMBDA d : file_name(d.path) = Some(hidden_dir_name)))

find_hidden_dir(provider_dir, hidden_dir_name) ==
    First(SelectSeq(dirs(provider_dir),
                    LAMBDA d : file_name(d.path) = Some(hidden_dir_name)))

\* let strip_prefix = provider_dir.path();
strip_prefix_hidden(provider_dir, hidden_dir) == hidden_dir.path
strip_prefix_empty(provider_dir, hidden_dir) == <<>>
strip_prefix_arg(provider_dir, hidden_dir) == provider_dir.path

\* Path::new(".")
dest_root_arg == PathNew(<<Dot>>)

provider_name == providers_to_scaffold[next_provider]
provider_dir == get_dir(TEMPLATES_DIR, PathNew(provider_name))
hidden_dir == find_hidden_dir(provider_dir.value, hidden_dir_name_of(provider_name))

Warn(msg, name) == warnings' = Append(warnings, [msg |-> msg, provider |-> name])

Init ==
    /\ TEMPLATES_DIR \in Catalogs
    /\ args \in ArgsDrawn
    /\ fs \in InitialDisks
    /\ pc = "main"
    /\ providers_to_scaffold = <<>>
    /\ next_provider = 0
    /\ pending = <<>>
    /\ result = "None"
    /\ error = None
    /\ warnings = <<>>
    /\ ops = <<>>
    /\ lookups = 0
    /\ run = "first"
    /\ fs_start = fs
    /\ fs_prev = EmptyFs
    /\ prev_result = "None"

\* if args.all { TEMPLATES_DIR.dirs()... .collect() }
SelectAll ==
    /\ pc = "main"
    /\ selection(args) = "all"
    /\ providers_to_scaffold' = top_level_names(TEMPLATES_DIR)
    /\ lookups' = lookups + 1
    /\ next_provider' = 1
    /\ pc' = "for"
    /\ UNCHANGED <<TEMPLATES_DIR, args, fs, pending, result, error, warnings,
                   ops, run, fs_start, fs_prev, prev_result>>

\* else if args.provider.is_empty() { warn!; return Ok(()) }
SelectNone ==
    /\ pc = "main"
    /\ selection(args) = "none"
    /\ Warn("No providers specified. Use --provider or --all. Exiting.", <<>>)
    /\ result' = "Ok"
    /\ pc' = "exit"
    /\ UNCHANGED <<TEMPLATES_DIR, args, fs, providers_to_scaffold, next_provider,
                   pending, error, ops, lookups, run, fs_start, fs_prev,
                   prev_result>>

\* else { args.provider }
SelectExplicit ==
    /\ pc = "main"
    /\ selection(args) = "explicit"
    /\ providers_to_scaffold' = args.provider
    /\ next_provider' = 1
    /\ pc' = "for"
    /\ UNCHANGED <<TEMPLATES_DIR, args, fs, pending, result, error, warnings,
                   ops, lookups, run, fs_start, fs_prev, prev_result>>

\* TEMPLATES_DIR.get_dir(&provider_name) is None: warn and go on.
ProviderNotFound_fatal ==
    /\ pc = "for"
    /\ next_provider <= Len(providers_to_scaffold)
    /\ ~provider_dir.some
    /\ lookups' = lookups + 1
    /\ Warn("not found in embedded templates", provider_name)
    /\ result' = "Err"
    /\ error' = Some([context |-> "not found", path |-> PathNew(provider_name)])
    /\ pc' = "exit"
    /\ UNCHANGED <<TEMPLATES_DIR, args, fs, providers_to_scaffold, next_provider,
                   pending, ops, run, fs_start, fs_prev, prev_result>>

ProviderNotFound ==
    /\ pc = "for"
    /\ next_provider <= Len(providers_to_scaffold)
    /\ ~provider_dir.some
    /\ lookups' = lookups + 1
    /\ Warn("not found in embedded templates", provider_name)
    /\ next_provider' = next_provider + 1
    /\ UNCHANGED <<TEMPLATES_DIR, args, fs, pc, providers_to_scaffold, pending,
                   result, error, ops, run, fs_start, fs_prev, prev_result>>

\* The provider directory has no child directory named hidden_dir_name:
\* warn and go on.
HiddenDirMissing ==
    /\ pc = "for"
    /\ next_provider <= Len(providers_to_scaffold)
    /\ provider_dir.some
    /\ ~hidden_dir.some
    /\ lookups' = lookups + 1
    /\ Warn("does not contain the hidden directory; skipping", provider_name)
    /\ next_provider' = next_provider + 1
    /\ UNCHANGED <<TEMPLATES_DIR, args, fs, pc, providers_to_scaffold, pending,
                   result, error, ops, run, fs_start, fs_prev, prev_result>>

\* extract_dir(hidden_dir, Path::new("."), strip_prefix) is entered.
ExtractBegin ==
    /\ pc = "for"
    /\ next_provider <= Len(providers_to_scaffold)
    /\ provider_dir.some
    /\ hidden_dir.some
    /\ lookups' = lookups + 1
    /\ pending' = extract_dir(hidden_dir.value, dest_root_arg,
                              strip_prefix_arg(provider_dir.value, hidden_dir.value))
    /\ pc' = "extract"
    /\ UNCHANGED <<TEMPLATES_DIR, args, fs, providers_to_scaffold, next_provider,
                   result, error, warnings, ops, run, fs_start, fs_prev,
                   prev_result>>

Logged(c, ok, injected) ==
    ops' = Append(ops, [call |-> c.call, path |-> Resolve(c.path),
                        contents |-> c.contents, ok |-> ok,
                        injected |-> injected, provider |-> next_provider])

\* The `?` after with_context: the error returns from extract_dir, from
\* handle_scaffold and from main.
Swallow(c) ==
    /\ pending' = Tail(pending)
    /\ UNCHANGED <<result, error, pc>>

Propagate(c) ==
    /\ result' = "Err"
    /\ error' = Some([context |-> c.context, path |-> c.path])
    /\ pending' = <<>>
    /\ pc' = "exit"

\* The next filesystem call of extract_dir succeeds.
CallOk ==
    /\ pc = "extract"
    /\ pending # <<>>
    /\ Perform(fs, Head(pending)).ok
    /\ fs' = Perform(fs, Head(pending)).fs
    /\ Logged(Head(pending), TRUE, FALSE)
    /\ pending' = Tail(pending)
    /\ UNCHANGED <<TEMPLATES_DIR, args, pc, providers_to_scaffold, next_provider,
                   result, error, warnings, lookups, run, fs_start, fs_prev,
                   prev_result>>

\* The next filesystem call fails because of what is on the disk.
CallErr ==
    /\ pc = "extract"
    /\ pending # <<>>
    /\ ~Perform(fs, Head(pending)).ok
    /\ fs' = Perform(fs, Head(pending)).fs
    /\ Logged(Head(pending), FALSE, FALSE)
    /\ Propagate(Head(pending))
    /\ UNCHANGED <<TEMPLATES_DIR, args, providers_to_scaffold, next_provider,
                   warnings, lookups, run, fs_start, fs_prev, prev_result>>

\* The system fails the next filesystem call (permissions, disk full).
CallFault ==
    /\ pc = "extract"
    /\ pending # <<>>
    /\ \E out \in FailedOutcomes(fs, Head(pending)) : fs' = out
    /\ Logged(Head(pending), FALSE, TRUE)
    /\ Propagate(Head(pending))
    /\ UNCHANGED <<TEMPLATES_DIR, args, providers_to_scaffold, next_provider,
                   warnings, lookups, run, fs_start, fs_prev, prev_result>>

\* extract_dir returns Ok(()): the for loop goes to the next provider.
ExtractReturn ==
    /\ pc = "extract"
    /\ pending = <<>>
    /\ next_provider' = next_provider + 1
    /\ pc' = "for"
    /\ UNCHANGED <<TEMPLATES_DIR, args, fs, providers_to_scaffold, pending,
                   result, error, warnings, ops, lookups, run, fs_start,
                   fs_prev, prev_result>>

\* The for loop is over: "Scaffolding complete.", Ok(()).
ScaffoldComplete ==
    /\ pc = "for"
    /\ next_provider > Len(providers_to_scaffold)
    /\ result' = "Ok"
    /\ pc' = "exit"
    /\ UNCHANGED <<TEMPLATES_DIR, args, fs, providers_to_scaffold, next_provider,
                   pending, error, warnings, ops, lookups, run, fs_start,
                   fs_prev, prev_result>>

\* The program is run a second time, with the same command line, on the
\* disk the first run left.
RunAgain ==
    /\ pc = "exit"
    /\ run = "first"
    /\ run' = "second"
    /\ fs_prev' = fs
    /\ prev_result' = result
    /\ fs_start' = fs
    /\ pc' = "main"
    /\ providers_to_scaffold' = <<>>
    /\ next_provider' = 0
    /\ pending' = <<>>
    /\ result' = "None"
    /\ error' = None
    /\ warnings' = <<>>
    /\ ops' = <<>>
    /\ lookups' = 0
    /\ UNCHANGED <<TEMPLATES_DIR, args, fs>>

Next ==
    \/ SelectAll
    \/ SelectNone
    \/ SelectExplicit
    \/ ProviderNotFound
    \/ HiddenDirMissing
    \/ ExtractBegin
    \/ CallOk
    \/ CallErr
    \/ CallFault
    \/ ExtractReturn
    \/ ScaffoldComplete
    \/ RunAgain

Spec == Init /\ [][Next]_vars

\* ---------------------------------------------------------- properties

Range(q) == { q[k] : k \in DOMAIN q }

\* Every directory of the catalog below its root, at any depth.
CatalogDirs == Range(all_dirs(TEMPLATES_DIR))

\* The files of a directory's subtree, at every depth.
RECURSIVE FilesUnder(_)
FilesUnder(d) ==
    { e \in Range(d.entries) : e.kind = "File" }
    \cup UNION { FilesUnder(e) : e \in { x \in Range(d.entries) : x.kind = "Dir" } }

\* The directories of a directory's subtree, itself included.
DirsUnder(d) == {d} \cup Range(all_dirs(d))

\* The path of a catalog entry relative to a directory above it.
RelativeTo(path, d) == SubSeq(path, Len(d.path) + 1, Len(path))

Providers == 1..Len(providers_to_scaffold)

\* The for loop is past provider i, and no error was returned.
Processed(i) == i \in Providers /\ i < next_provider /\ result # "Err"

\* The catalog directories named P/.P for the i-th resolved name P.
HiddenDirs(i) ==
    { d \in CatalogDirs :
        d.path = <<providers_to_scaffold[i], <<Dot>> \o providers_to_scaffold[i]>> }

\* The filesystem calls made while the loop was at provider i.
OpsOf(i) == { k \in DOMAIN ops : ops[k].provider = i }

Warned(i, msg) ==
    \E k \in DOMAIN warnings :
        warnings[k] = [msg |-> msg, provider |-> providers_to_scaffold[i]]

\* Errors come from failed filesystem calls only, and a run that returns
\* Ok went through the whole list.
OnlyIoFails ==
    /\ result = "Err" => ops # <<>> /\ ~Last(ops).ok
    /\ (pc = "exit" /\ result = "Ok" /\ providers_to_scaffold # <<>>)
            => next_provider = Len(providers_to_scaffold) + 1

\* C1 as stated: once provider P is scaffolded, every catalog file P/.P/r
\* with content c is the file <cwd>/r with content c.
C1_ChildrenDirectlyUnderCwd ==
    \A i \in Providers : Processed(i) =>
        \A h \in HiddenDirs(i) : \A f \in FilesUnder(h) :
            /\ IsFile(fs, RelativeTo(f.path, h))
            /\ fs.files[RelativeTo(f.path, h)] = f.contents

\* C1 amended: once provider P is scaffolded, every catalog file P/.P/r
\* with content c is the file <cwd>/.P/r with content c.
C1_FilesUnderHiddenDir ==
    \A i \in Providers : Processed(i) =>
        \A h \in HiddenDirs(i) : \A f \in FilesUnder(h) :
            /\ IsFile(fs, <<Last(h.path)>> \o RelativeTo(f.path, h))
            /\ fs.files[<<Last(h.path)>> \o RelativeTo(f.path, h)] = f.contents

\* The scenario of C1: provider a of the main catalog, from an empty
\* working directory, has returned Ok and .a/c holds "x: 1".
C1_Witness ==
    /\ TEMPLATES_DIR = CatalogMain
    /\ providers_to_scaffold = <<s_a>>
    /\ fs_start = EmptyFs
    /\ pc = "exit" /\ result = "Ok"
    /\ IsFile(fs, <<h_a, s_c>>)
    /\ fs.files[<<h_a, s_c>>] = "x: 1"

\* C2: once provider P is extracted, <cwd>/.P is a directory and every
\* catalog entry P/.P/r (directory or file) is at <cwd>/.P/r: only the
\* leading P segment is removed.
C2_HiddenDirIsRoot ==
    \A i \in Providers : Processed(i) =>
        \A h \in HiddenDirs(i) :
            /\ IsDir(fs, <<<<Dot>> \o providers_to_scaffold[i]>>)
            /\ \A d \in DirsUnder(h) : IsDir(fs, Tail(d.path))
            /\ \A f \in FilesUnder(h) : IsFile(fs, Tail(f.path))

\* Provider b of the main catalog was extracted: .b, .b/s, .b/e are
\* directories and .b/s/y is a file.
C2_Witness ==
    /\ TEMPLATES_DIR = CatalogMain
    /\ \E i \in Providers : Processed(i) /\ providers_to_scaffold[i] = s_b
    /\ IsDir(fs, <<h_b>>) /\ IsDir(fs, <<h_b, s_s>>) /\ IsDir(fs, <<h_b, s_e>>)
    /\ IsFile(fs, <<h_b, s_s, s_y>>)

\* The directory an extraction created first: its extracted root.
ExtractedRoot(i) == ops[CHOOSE k \in OpsOf(i) : \A j \in OpsOf(i) : k <= j].path

WrittenBy(i) ==
    { [path |-> ops[k].path, contents |-> ops[k].contents] :
        k \in { j \in OpsOf(i) : ops[j].call = "write" } }

OnDiskUnder(root) ==
    { [path |-> p, contents |-> fs.files[p]] :
        p \in { q \in DOMAIN fs.files : IsPrefix(root, q) } }

SourceAt(h, root) ==
    { [path |-> root \o RelativeTo(f.path, h), contents |-> f.contents] :
        f \in FilesUnder(h) }

\* C3: when an extraction has returned Ok, the files it wrote are exactly
\* the files of the source subtree, at the same paths relative to the
\* extracted root and with the same contents; every directory of the
\* subtree exists under the root; and on a disk that started empty, the
\* files under the root are exactly those.
C3_RoundTrip ==
    \A i \in Providers : Processed(i) =>
        \A h \in HiddenDirs(i) :
            /\ OpsOf(i) # {}
            /\ WrittenBy(i) = SourceAt(h, ExtractedRoot(i))
            /\ \A d \in DirsUnder(h) :
                   IsDir(fs, ExtractedRoot(i) \o RelativeTo(d.path, h))
            /\ (run = "first" /\ fs_start = EmptyFs)
                   => OnDiskUnder(ExtractedRoot(i)) = SourceAt(h, ExtractedRoot(i))

\* Provider b (files at two depths, an empty directory) was extracted
\* onto an empty disk.
C3_Witness ==
    /\ TEMPLATES_DIR = CatalogMain
    /\ run = "first" /\ fs_start = EmptyFs
    /\ \E i \in Providers :
            /\ Processed(i)
            /\ providers_to_scaffold[i] = s_b
            /\ Cardinality(WrittenBy(i)) = 2
    /\ IsDir(fs, <<h_b, s_e>>)

NoFaultInjected == \A k \in DOMAIN ops : ~ops[k].injected

\* C4: a second run after a successful first one, with nothing failed by
\* the system, does not fail and leaves the disk as the first run left it.
C4_Idempotent ==
    (run = "second" /\ prev_result = "Ok" /\ NoFaultInjected) =>
        /\ result # "Err"
        /\ fs = fs_prev

\* A second run has rewritten files over the first run's and returned Ok,
\* on a disk that held an older file at a target path.
C4_Witness ==
    /\ run = "second" /\ prev_result = "Ok"
    /\ pc = "exit" /\ result = "Ok"
    /\ \E k \in DOMAIN ops : ops[k].call = "write"
    /\ IsFile(fs_start, <<h_a, s_c>>)
    /\ fs = fs_prev

\* The i-th resolved name is the path of no directory of the catalog.
NotACatalogDir(i) ==
    \A d \in CatalogDirs : d.path # PathNew(providers_to_scaffold[i])

\* C5: a name that is no catalog directory causes no filesystem call; once
\* the loop is past it a warning was logged; it never makes the run fail
\* and the rest of the list is processed.
C5_AbsentProviderSkipped ==
    /\ \A i \in Providers : NotACatalogDir(i) =>
            /\ OpsOf(i) = {}
            /\ (i < next_provider => Warned(i, "not found in embedded templates"))
            /\ (i = next_provider => pc # "extract" /\ result # "Err")
    /\ OnlyIoFails

\* An absent name was followed by a provider that was extracted, and the
\* run returned Ok.
C5_Witness ==
    /\ pc = "exit" /\ result = "Ok"
    /\ Len(providers_to_scaffold) = 2
    /\ NotACatalogDir(1)
    /\ OpsOf(2) # {}

\* C6: a failed filesystem call is the last call of the run, the run
\* returns Err right there, and nothing is rolled back: what the disk held
\* at the start and what the run created or wrote before is still there
\* (but for the path of the failing call itself).
C6_FailureAborts ==
    /\ \A k \in DOMAIN ops : ~ops[k].ok => k = Len(ops)
    /\ (ops # <<>> /\ ~Last(ops).ok) <=> result = "Err"
    /\ result = "Err" =>
        /\ pc = "exit"
        /\ fs_start.dirs \subseteq fs.dirs
        /\ DOMAIN fs_start.files \subseteq DOMAIN fs.files
        /\ \A k \in 1..(Len(ops) - 1) :
            IF ops[k].call = "create_dir_all" THEN IsDir(fs, ops[k].path)
            ELSE /\ IsFile(fs, ops[k].path)
                 /\ ops[k].path # Last(ops).path
                        => fs.files[ops[k].path] = ops[k].contents

\* A call failed after the first provider had been extracted and before
\* the last provider was done.
C6_Witness ==
    /\ result = "Err"
    /\ Len(ops) > 3
    /\ OpsOf(1) # {}
    /\ next_provider < Len(providers_to_scaffold)

\* The top-level directory names of the catalog, in catalog order.
RECURSIVE TopDirNames(_)
TopDirNames(entries) ==
    IF entries = <<>> THEN <<>>
    ELSE (IF Head(entries).kind = "Dir" THEN <<Head(entries).path[1]>> ELSE <<>>)
         \o TopDirNames(Tail(entries))

\* C7: with --all the resolved list is the catalog's top-level directory
\* names in catalog order, whatever --provider says; without --all a
\* non-empty explicit list is used as given.
C7_ResolvedList ==
    pc # "main" =>
        /\ args.all => providers_to_scaffold = TopDirNames(TEMPLATES_DIR.entries)
        /\ (~args.all /\ args.provider # <<>>) => providers_to_scaffold = args.provider

\* --all was given together with --provider on the main catalog (which
\* has a top-level file), and the list was resolved.
C7_Witness ==
    /\ pc = "for"
    /\ args.all /\ args.provider # <<>>
    /\ TEMPLATES_DIR = CatalogMain
    /\ providers_to_scaffold = <<s_b, s_a, s_n, s_f, s_A>>

\* A list with a duplicate was resolved without --all.
C7_WitnessExplicit ==
    /\ pc = "for" /\ ~args.all /\ providers_to_scaffold = <<s_a, s_a>>

\* C8: with no --provider and no --all the run returns Ok with one
\* warning, no filesystem call and no catalog access.
C8_EmptySelection ==
    (~args.all /\ args.provider = <<>> /\ pc # "main") =>
        /\ pc = "exit" /\ result = "Ok"
        /\ ops = <<>> /\ lookups = 0 /\ fs = fs_start
        /\ Len(warnings) = 1

\* The empty command line has returned, on a disk that is not empty.
C8_Witness ==
    /\ ~args.all /\ args.provider = <<>>
    /\ pc = "exit" /\ result = "Ok"
    /\ fs # EmptyFs

\* C9: under --all, calls made for two different providers never touch
\* the same path.
C9_NoCrossProviderCollision ==
    args.all =>
        \A j, k \in DOMAIN ops :
            ops[j].provider # ops[k].provider => ops[j].path # ops[k].path

\* --all on the main catalog has extracted two providers that both hold a
\* file named x.
C9_Witness ==
    /\ args.all /\ pc = "exit" /\ result = "Ok"
    /\ IsFile(fs, <<h_a, s_x>>) /\ IsFile(fs, <<h_b, s_x>>)
    /\ \E j, k \in DOMAIN ops : ops[j].provider # ops[k].provider

\* The i-th resolved name is a catalog directory none of whose immediate
\* child directories is named "." + name.
NoHiddenChild(i) ==
    \E d \in CatalogDirs :
        /\ d.path = PathNew(providers_to_scaffold[i])
        /\ \A k \in DOMAIN d.entries :
              ~(/\ d.entries[k].kind = "Dir"
                /\ Last(d.entries[k].path) = <<Dot>> \o providers_to_scaffold[i])

\* C10: a provider directory without an immediate child directory named
\* exactly "." + name is skipped: no filesystem call, a warning, no
\* failure, and the loop goes on.
C10_HiddenLookupImmediateOnly ==
    /\ \A i \in Providers : NoHiddenChild(i) =>
            /\ OpsOf(i) = {}
            /\ (i < next_provider =>
                    Warned(i, "does not contain the hidden directory; skipping"))
            /\ (i = next_provider => pc # "extract" /\ result # "Err")
    /\ OnlyIoFails

\* --all on the main catalog went past n (.n only deeper), f (.f a file)
\* and A (only .a) and returned Ok.
C10_Witness ==
    /\ TEMPLATES_DIR = CatalogMain /\ args.all
    /\ pc = "exit" /\ result = "Ok"
    /\ \A i \in Providers :
          providers_to_scaffold[i] \in {s_n, s_f, s_A} => NoHiddenChild(i)
    /\ Cardinality({ i \in Providers : NoHiddenChild(i) }) = 3

====
